---- MODULE Spec2Model ----
(***************************************************************************)
(* Model of the MerkleTree library: the tree builder (Prover::new and      *)
(* Prover::build_tree), the proof generator (Prover::get_proof) and the    *)
(* verifier (Verifier::verify_proof).                                      *)
(*                                                                         *)
(* Bytes and digests.  A byte string is a sequence of atoms.  An atom is   *)
(* either one byte of a record, <<"b", n>>, or one 32-byte digest taken    *)
(* as a block, <<"h", content>>.  SHA-256 is taken to be collision free:   *)
(* the digest of a byte string is the term <<"h", content>> over the       *)
(* concatenation of the parts, so two digests are equal exactly when the   *)
(* concatenated inputs are equal.  Records hold plain bytes only (no       *)
(* record contains the 32 bytes of a digest).                              *)
(***************************************************************************)
EXTENDS Integers, Sequences, FiniteSets, TLC

VARIABLES
    prover,      \* prover[i]: the result of Prover::new for prover i (or not yet called)
    input,       \* input[i]: the arguments prover i was constructed with
    proof,       \* the result of the last Prover::get_proof / the proof handed to the verifier
    verifier,    \* the Verifier (its root_hash), or not yet constructed
    result,      \* the outcome of Verifier::verify_proof
    size_call,   \* the last Prover::new call of the size-ceiling scenario
    build        \* a running Prover::build_tree: its position and its local variables

vars == <<prover, input, proof, verifier, result, size_call, build>>

---------------------------------------------------------------------------
(* Bounds of the model *)

MaxRecords == 7          \* longest record sequence given to Prover::new
MaxThreads == 2          \* largest num_threads given to Prover::new
MaxForgedIndex == 3      \* largest leaf_index of a hand-made proof
MaxForgedPath == 2       \* longest freely chosen authentication_path of a hand-made proof
OverLong == 1            \* hand-made uniform paths reach USIZE_BITS + OverLong elements
SizeSpan == 12           \* record counts within SizeSpan of 0 and of MAX_DATA_SIZE

---------------------------------------------------------------------------
(* Program constants *)

MAX_DATA_SIZE == 1048576 \* 1 << 20
USIZE_BITS == 64         \* width of usize, the type of `1 << height`

RecordValues == { <<1>>, <<2>> }     \* the record strings, as their bytes

---------------------------------------------------------------------------
(* hasher.rs *)

RECURSIVE Concat(_)
Concat(datas) ==
    IF datas = <<>> THEN <<>> ELSE Head(datas) \o Concat(Tail(datas))

\* sha256.update(data) for each part, then finalize
hash_data_sequences(datas) == <<"h", Concat(datas)>>

\* d.as_bytes(): the bytes of a record string
as_bytes(d) == [i \in DOMAIN d |-> <<"b", d[i]>>]

\* a [u8; 32] digest passed as a byte slice
hash_bytes(h) == <<h>>

---------------------------------------------------------------------------
(* prover.rs: Node and build_tree *)

None == [tag |-> "None"]
Some(hash, left, right) ==
    [tag |-> "Some", hash |-> hash, left |-> left, right |-> right]

\* lines 132-141: one childless node per record, in input order
leaf_nodes(data) ==
    [i \in 1..Len(data) |->
        Some(hash_data_sequences(<<as_bytes(data[i])>>), None, None)]

\* lines 145-154: an odd level gets a childless copy of its last node's hash
pad_level(current_level) ==
    IF Len(current_level) % 2 = 1
    THEN Append(current_level,
                Some(current_level[Len(current_level)].hash, None, None))
    ELSE current_level

\* make_parent hashing chunk[0] twice
make_parent_dup(chunk0, chunk1) ==
    Some(hash_data_sequences(<<hash_bytes(chunk0.hash), hash_bytes(chunk0.hash)>>),
         chunk0, chunk1)

\* lines 167-179: the parent of one chunk of two nodes
make_parent(chunk0, chunk1) ==
    Some(hash_data_sequences(<<hash_bytes(chunk0.hash), hash_bytes(chunk1.hash)>>),
         chunk0, chunk1)

\* next_level with the parents gathered worker by worker (worker w of
\* num_threads takes the chunks w, w + num_threads, ...) instead of by chunk number
RECURSIVE gather_by_worker(_, _, _)
gather_by_worker(chunks, num_threads, w) ==
    IF w >= num_threads THEN <<>>
    ELSE SelectSeq([k \in 1..chunks |-> k], LAMBDA k : (k - 1) % num_threads = w)
         \o gather_by_worker(chunks, num_threads, w + 1)

next_level_by_worker(current_level, num_threads) ==
    LET order == gather_by_worker(Len(current_level) \div 2, num_threads, 0)
    IN  [j \in 1..(Len(current_level) \div 2) |->
            make_parent(current_level[2 * order[j] - 1], current_level[2 * order[j]])]

\* lines 157-187: parents of all chunks, stored by chunk number
next_level(current_level, num_threads) ==
    [k \in 1..(Len(current_level) \div 2) |->
        make_parent(current_level[2 * k - 1], current_level[2 * k])]

RECURSIVE collapse(_, _)
collapse(current_level, num_threads) ==
    IF Len(current_level) > 1
    THEN collapse(next_level(pad_level(current_level), num_threads), num_threads)
    ELSE current_level

\* lines 129-192; called with non-empty data only (Prover::new checks it)
build_tree(data, num_threads) ==
    LET top == collapse(leaf_nodes(data), num_threads)
    IN  top[Len(top)]

---------------------------------------------------------------------------
(* prover.rs: Prover::new, get_root_hash, get_proof *)

\* new_check rejecting a record count equal to MAX_DATA_SIZE
new_check_ge(len, num_threads) ==
    IF len = 0 THEN "Data cannot be empty"
    ELSE IF len >= MAX_DATA_SIZE THEN "Data size exceeds the maximum allowed size"
    ELSE IF num_threads = 0 THEN "Number of threads cannot be zero"
    ELSE "Ok"

\* lines 51-59: the three argument checks, on data.len() and num_threads
new_check(len, num_threads) ==
    IF len = 0 THEN "Data cannot be empty"
    ELSE IF len > MAX_DATA_SIZE THEN "Data size exceeds the maximum allowed size"
    ELSE IF num_threads = 0 THEN "Number of threads cannot be zero"
    ELSE "Ok"

\* lines 50-64
Prover_new(data, num_threads) ==
    LET c == new_check(Len(data), num_threads)
    IN  IF c = "Ok"
        THEN [tag |-> "Ok", root |-> build_tree(data, num_threads),
              data_length |-> Len(data)]
        ELSE [tag |-> "Err", err |-> c]

\* lines 71-76
get_root_hash(p) ==
    IF p.root.tag = "Some"
    THEN [tag |-> "Ok", hash |-> p.root.hash]
    ELSE [tag |-> "Err", err |-> "Root node is missing"]

\* the height rounded down instead of up
RECURSIVE floor_log2(_)
floor_log2(n) == IF n <= 1 THEN 0 ELSE 1 + floor_log2(n \div 2)

\* (n as f64).log2().ceil() as usize; exact for the counts Prover::new admits
RECURSIVE ceil_log2(_)
ceil_log2(n) == IF n <= 1 THEN 0 ELSE 1 + ceil_log2((n + 1) \div 2)

\* bit k of x
RECURSIVE bit_set(_, _)
bit_set(x, k) ==
    IF x = 0 THEN FALSE
    ELSE IF k = 0 THEN x % 2 = 1
    ELSE bit_set(x \div 2, k - 1)

Panic == [tag |-> "Panic"]

\* the descent taking the left subtree on a set bit and the right one on a clear bit
RECURSIVE descend_mirrored(_, _, _, _)
descend_mirrored(current_node, height, leaf_index, authentication_path) ==
    IF height > 0
    THEN IF current_node.left.tag = "None" \/ current_node.right.tag = "None"
         THEN Panic
         ELSE IF bit_set(leaf_index, height - 1)
              THEN descend_mirrored(current_node.left, height - 1, leaf_index,
                                    Append(authentication_path, current_node.right.hash))
              ELSE descend_mirrored(current_node.right, height - 1, leaf_index,
                                    Append(authentication_path, current_node.left.hash))
    ELSE [tag |-> "Ok", leaf_index |-> leaf_index, leaf_hash |-> current_node.hash,
          authentication_path |-> authentication_path]

\* lines 96-114: the descent from current_node; unwrap of a missing child panics
RECURSIVE descend(_, _, _, _)
descend(current_node, height, leaf_index, authentication_path) ==
    IF height > 0
    THEN IF current_node.left.tag = "None" \/ current_node.right.tag = "None"
         THEN Panic
         ELSE IF bit_set(leaf_index, height - 1)
              THEN descend(current_node.right, height - 1, leaf_index,
                           Append(authentication_path, current_node.left.hash))
              ELSE descend(current_node.left, height - 1, leaf_index,
                           Append(authentication_path, current_node.right.hash))
    ELSE [tag |-> "Ok", leaf_index |-> leaf_index, leaf_hash |-> current_node.hash,
          authentication_path |-> authentication_path]

\* get_proof accepting leaf_index == data_length
get_proof_inclusive(p, leaf_index) ==
    IF leaf_index > p.data_length
    THEN [tag |-> "Err", err |-> "Leaf index is out of bounds."]
    ELSE IF p.root.tag = "None"
         THEN Panic
         ELSE descend(p.root, ceil_log2(p.data_length), leaf_index, <<>>)

\* lines 87-115
get_proof(p, leaf_index) ==
    IF leaf_index >= p.data_length
    THEN [tag |-> "Err", err |-> "Leaf index is out of bounds."]
    ELSE IF p.root.tag = "None"
         THEN Panic
         ELSE descend(p.root, ceil_log2(p.data_length), leaf_index, <<>>)

---------------------------------------------------------------------------
(* verifier.rs *)

\* combine with the two concatenation orders exchanged
combine_swapped(direction, hash, current_hash) ==
    IF direction
    THEN hash_data_sequences(<<hash_bytes(current_hash), hash_bytes(hash)>>)
    ELSE hash_data_sequences(<<hash_bytes(hash), hash_bytes(current_hash)>>)

\* lines 41-45: the sibling goes left of the current hash when the bit is set
combine(direction, hash, current_hash) ==
    IF direction
    THEN hash_data_sequences(<<hash_bytes(hash), hash_bytes(current_hash)>>)
    ELSE hash_data_sequences(<<hash_bytes(current_hash), hash_bytes(hash)>>)

\* lines 39-47: one iteration of the loop, number `height`, on the element
\* `height` places from the end of the path.  `1 << height` with
\* height >= USIZE_BITS panics when the build checks overflow and masks the
\* shift amount otherwise.
verify_step(authentication_path, height, current_hash, leaf_index, overflow_checks) ==
    IF height >= USIZE_BITS /\ overflow_checks
    THEN Panic
    ELSE [tag |-> "Ret",
          hash |-> combine(bit_set(leaf_index, height % USIZE_BITS),
                           authentication_path[Len(authentication_path) - height],
                           current_hash)]

\* lines 38-48: the iterations number `height` up to (not including) `last`
\* of the loop over authentication_path.iter().rev(), in order: the first half
\* of them, then the second half from the hash the first half left, unless it
\* panicked.  (The singleton set binds the outcome of the first half.)
RECURSIVE verify_iterations(_, _, _, _, _, _)
verify_iterations(authentication_path, height, last, current_hash, leaf_index, overflow_checks) ==
    IF height >= last
    THEN [tag |-> "Ret", hash |-> current_hash]
    ELSE IF last = height + 1
         THEN verify_step(authentication_path, height, current_hash, leaf_index,
                          overflow_checks)
         ELSE CHOOSE r \in
                { IF first.tag = "Panic"
                  THEN Panic
                  ELSE verify_iterations(authentication_path, (height + last) \div 2,
                                         last, first.hash, leaf_index, overflow_checks) :
                    first \in
                      { verify_iterations(authentication_path, height,
                                          (height + last) \div 2, current_hash,
                                          leaf_index, overflow_checks) } } : TRUE

\* lines 38-48: the loop from iteration `height` to the end of the path
verify_loop(authentication_path, height, current_hash, leaf_index, overflow_checks) ==
    verify_iterations(authentication_path, height, Len(authentication_path),
                      current_hash, leaf_index, overflow_checks)

\* lines 34-51
verify_proof(root_hash, p, overflow_checks) ==
    LET r == verify_loop(p.authentication_path, 0, p.leaf_hash, p.leaf_index,
                         overflow_checks)
    IN  IF r.tag = "Panic" THEN "panic"
        ELSE IF r.hash = root_hash THEN "true" ELSE "false"

---------------------------------------------------------------------------
(* The protocol: two provers, one proof, one verifier *)

RECURSIVE SeqsUpTo(_, _)
SeqsUpTo(S, n) ==
    IF n = 0 THEN { <<>> }
    ELSE LET shorter == SeqsUpTo(S, n - 1)
         IN  shorter \cup { Append(s, x) : s \in { t \in shorter : Len(t) = n - 1 }, x \in S }

DataSets == SeqsUpTo(RecordValues, MaxRecords)

NoProof == [tag |-> "None"]
NoVerifier == [tag |-> "None"]
NoCall == [tag |-> "None"]
NoBuild == [pc |-> "idle", data |-> <<>>, num_threads |-> 0, current_level |-> <<>>,
            parents |-> <<>>, reordered |-> FALSE, root |-> None]

Init ==
    /\ prover = [i \in {1, 2} |-> [tag |-> "None"]]
    /\ input = [i \in {1, 2} |-> [tag |-> "None"]]
    /\ proof = NoProof
    /\ verifier = NoVerifier
    /\ result = "none"
    /\ size_call = NoCall
    /\ build = NoBuild

\* Prover::new(data, num_threads) for prover i
New(i, data, num_threads) ==
    /\ prover[i].tag = "None"
    /\ prover' = [prover EXCEPT ![i] = Prover_new(data, num_threads)]
    /\ input' = [input EXCEPT ![i] = [tag |-> "Args", data |-> data,
                                      num_threads |-> num_threads]]
    /\ UNCHANGED <<proof, verifier, result, size_call, build>>

\* Verifier::new(prover i .get_root_hash())
VerifierNew(i) ==
    /\ prover[i].tag = "Ok"
    /\ verifier.tag = "None"
    /\ get_root_hash(prover[i]).tag = "Ok"
    /\ verifier' = [tag |-> "Verifier", root_hash |-> get_root_hash(prover[i]).hash,
                    from |-> i]
    /\ UNCHANGED <<prover, input, proof, result, size_call, build>>

\* prover i .get_proof(leaf_index)
GetProof(i, leaf_index) ==
    /\ prover[i].tag = "Ok"
    /\ proof.tag = "None"
    /\ proof' = [call |-> [from |-> i, leaf_index |-> leaf_index]]
                @@ get_proof(prover[i], leaf_index)
    /\ UNCHANGED <<prover, input, verifier, result, size_call, build>>

\* verifier.verify_proof(&proof)
VerifyProof ==
    /\ verifier.tag = "Verifier"
    /\ proof.tag = "Ok"
    /\ result = "none"
    /\ \E overflow_checks \in BOOLEAN :
          result' = verify_proof(verifier.root_hash, proof, overflow_checks)
    /\ UNCHANGED <<prover, input, proof, verifier, size_call, build>>

---------------------------------------------------------------------------
(* Spec: one prover, its proofs and a verifier holding its root hash *)

NewOne ==
    \E data \in DataSets, num_threads \in 0..MaxThreads : New(1, data, num_threads)

VerifierNewOne == VerifierNew(1)

GetProofOne == \E leaf_index \in 0..(MaxRecords + 1) : GetProof(1, leaf_index)

Next ==
    \/ NewOne
    \/ VerifierNewOne
    \/ GetProofOne
    \/ VerifyProof

Spec == Init /\ [][Next]_vars

---------------------------------------------------------------------------
(* SpecPair: two provers, each with its own positive num_threads; the      *)
(* second is built from as many records as the first (the same records or  *)
(* changed ones)                                                           *)

MaxPairRecords == 5      \* longest record sequence of the two-prover scenarios

PairDataSets == { d \in SeqsUpTo(RecordValues, MaxPairRecords) : d # <<>> }

NewPair ==
    \E i \in {1, 2}, data \in PairDataSets, num_threads \in 1..MaxThreads :
        /\ i = 2 => (prover[1].tag = "Ok" /\ Len(data) = prover[1].data_length)
        /\ New(i, data, num_threads)

NextPair == NewPair

SpecPair == Init /\ [][NextPair]_vars

---------------------------------------------------------------------------
(* SpecTamper: two provers built with num_threads = 1; a proof of the      *)
(* second is checked against the root hash of the first                    *)

NewTamper ==
    \E i \in {1, 2}, data \in PairDataSets : New(i, data, 1)

VerifierNewTamper ==
    /\ prover[2].tag = "Ok"
    /\ VerifierNew(1)

GetProofTamper ==
    /\ verifier.tag = "Verifier"
    /\ \E leaf_index \in 0..(MaxPairRecords - 1) :
          /\ leaf_index < prover[2].data_length
          /\ GetProof(2, leaf_index)

NextTamper ==
    \/ NewTamper
    \/ VerifierNewTamper
    \/ GetProofTamper
    \/ VerifyProof

SpecTamper == Init /\ [][NextTamper]_vars

---------------------------------------------------------------------------
(* SpecVerify: a verifier with any root hash is handed any well-typed proof *)

LeafHashes == { hash_data_sequences(<<as_bytes(d)>>) : d \in RecordValues }

HashPool ==
    LeafHashes \cup
    { hash_data_sequences(<<hash_bytes(a), hash_bytes(b)>>) : a, b \in LeafHashes }

ForgedPaths ==
    SeqsUpTo(HashPool, MaxForgedPath) \cup
    { [k \in 1..n |-> h] : n \in (USIZE_BITS - 1)..(USIZE_BITS + OverLong),
                           h \in LeafHashes }

\* Verifier::new(root_hash) with any 32-byte value
VerifierNewAny ==
    /\ verifier.tag = "None"
    /\ \E root_hash \in HashPool :
          verifier' = [tag |-> "Verifier", root_hash |-> root_hash, from |-> 0]
    /\ UNCHANGED <<prover, input, proof, result, size_call, build>>

\* a MerkleProof value built field by field (all fields are public)
ForgeProof ==
    /\ proof.tag = "None"
    /\ \E leaf_index \in 0..MaxForgedIndex, leaf_hash \in HashPool,
          authentication_path \in ForgedPaths :
          proof' = [call |-> [from |-> 0, leaf_index |-> leaf_index],
                    tag |-> "Ok", leaf_index |-> leaf_index, leaf_hash |-> leaf_hash,
                    authentication_path |-> authentication_path]
    /\ UNCHANGED <<prover, input, verifier, result, size_call, build>>

NextVerify ==
    \/ VerifierNewAny
    \/ ForgeProof
    \/ VerifyProof

SpecVerify == Init /\ [][NextVerify]_vars

---------------------------------------------------------------------------
(* SpecSize: Prover::new on record sequences around the size ceiling.  The *)
(* checks of Prover::new read data.len() only, and build_tree has no       *)
(* failing path on non-empty data, so the outcome is that of new_check.    *)

SizeLens ==
    (0..SizeSpan) \cup ((MAX_DATA_SIZE - SizeSpan)..(MAX_DATA_SIZE + SizeSpan))

NewSized ==
    \E len \in SizeLens, num_threads \in 0..MaxThreads :
        /\ size_call' = [tag |-> "Call", len |-> len, num_threads |-> num_threads,
                         result |-> new_check(len, num_threads)]
        /\ UNCHANGED <<prover, input, proof, verifier, result, build>>

NextSize == NewSized

SpecSize == Init /\ [][NextSize]_vars

---------------------------------------------------------------------------
(* SpecPar: Prover::build_tree step by step.  The chunks of one level are   *)
(* handed to the workers of the thread pool and finish in any order; the    *)
(* collect() of line 181 is the barrier before the parents are stored.      *)
(* `parents` holds the (chunk_number, parent) pairs in the order the chunks *)
(* finished, which covers the index order an indexed collect returns.       *)

MaxParRecords == 6       \* longest record sequence of the step-by-step build

ParDataSets == { d \in SeqsUpTo(RecordValues, MaxParRecords) : d # <<>> }

\* lines 175-176: chunk[0].take() and chunk[1].take() leave None in the level
take_chunk(current_level, chunk_number) ==
    [j \in 1..Len(current_level) |->
        IF j = 2 * chunk_number - 1 \/ j = 2 * chunk_number
        THEN None ELSE current_level[j]]

\* the parents pushed in the order they finished, the chunk number ignored
store_parents_pushed(parents, next_size) ==
    [j \in 1..next_size |-> IF j <= Len(parents) THEN parents[j][2] ELSE None]

\* lines 161 and 183-185: next_level starts as None everywhere, then
\* next_level[idx] = parent for each pair in turn (the last write stays)
store_parents(parents, next_size) ==
    [j \in 1..next_size |->
        LET writes == { i \in 1..Len(parents) : parents[i][1] = j - 1 }
        IN  IF writes = {} THEN None
            ELSE parents[CHOOSE i \in writes : \A i2 \in writes : i2 <= i][2]]

\* lines 129-141: build_tree is entered (after the checks of Prover::new)
BuildStart ==
    /\ build.pc = "idle"
    /\ \E data \in ParDataSets, num_threads \in 1..MaxThreads :
          /\ new_check(Len(data), num_threads) = "Ok"
          /\ build' = [build EXCEPT !.pc = "loop", !.data = data,
                                    !.num_threads = num_threads,
                                    !.current_level = leaf_nodes(data)]
    /\ UNCHANGED <<prover, input, proof, verifier, result, size_call>>

\* lines 144-161: the loop test and the padding of an odd level
BuildPad ==
    /\ build.pc = "loop"
    /\ Len(build.current_level) > 1
    /\ build' = [build EXCEPT !.pc = "par",
                              !.current_level = pad_level(build.current_level)]
    /\ UNCHANGED <<prover, input, proof, verifier, result, size_call>>

\* lines 167-179: one worker runs the closure on chunk number chunk_number
\* (chunk numbers count from 0)
BuildHashChunk ==
    /\ build.pc = "par"
    /\ \E chunk_number \in 0..(Len(build.current_level) \div 2 - 1) :
          /\ build.current_level[2 * chunk_number + 1].tag = "Some"
          /\ build' =
               [build EXCEPT
                  !.parents =
                      Append(@, <<chunk_number,
                                  make_parent(build.current_level[2 * chunk_number + 1],
                                              build.current_level[2 * chunk_number + 2])>>),
                  !.current_level = take_chunk(@, chunk_number + 1),
                  !.reordered =
                      @ \/ \E i \in 1..Len(build.parents) :
                              build.parents[i][1] > chunk_number]
    /\ UNCHANGED <<prover, input, proof, verifier, result, size_call>>

\* lines 181-187: all chunks have finished; the parents are stored by index
\* and become the current level
BuildJoin ==
    /\ build.pc = "par"
    /\ Len(build.parents) = Len(build.current_level) \div 2
    /\ build' = [build EXCEPT
                   !.pc = "loop",
                   !.current_level =
                       store_parents(build.parents, Len(build.current_level) \div 2),
                   !.parents = <<>>]
    /\ UNCHANGED <<prover, input, proof, verifier, result, size_call>>

\* line 191: current_level.pop().unwrap()
BuildReturn ==
    /\ build.pc = "loop"
    /\ Len(build.current_level) = 1
    /\ build' = [build EXCEPT !.pc = "done",
                              !.root = build.current_level[1],
                              !.current_level = <<>>]
    /\ UNCHANGED <<prover, input, proof, verifier, result, size_call>>

NextPar ==
    \/ BuildStart
    \/ BuildPad
    \/ BuildHashChunk
    \/ BuildJoin
    \/ BuildReturn

SpecPar == Init /\ [][NextPar]_vars

---------------------------------------------------------------------------
(* Properties *)

RECURSIVE Pow2(_)
Pow2(k) == IF k = 0 THEN 1 ELSE 2 * Pow2(k - 1)

\* x shifted right by k bits
RECURSIVE shr(_, _)
shr(x, k) == IF k = 0 \/ x = 0 THEN x ELSE shr(x \div 2, k - 1)

Built(i) == prover[i].tag = "Ok"

\* the two record sequences have one length and differ in exactly one record
OneRecordChanged(d1, d2) ==
    /\ Len(d1) = Len(d2)
    /\ Cardinality({ k \in 1..Len(d1) : d1[k] # d2[k] }) = 1

\* C1 (Spec): a proof returned by get_proof of a prover is accepted by the
\* verifier that holds the root hash of that prover's tree.
C1_RoundTrip ==
    (result # "none" /\ proof.call.from = verifier.from) => result = "true"

C1_Witness ==
    /\ result = "true"
    /\ proof.call.from = 1 /\ verifier.from = 1
    /\ prover[1].data_length = 5
    /\ proof.leaf_index = 4

\* C2 (SpecTamper): a proof generated from the tree of one record sequence is
\* rejected by the verifier holding the root hash of any differing record
\* sequence, of equal or different length.
C2_TamperDetection ==
    (result # "none" /\ proof.call.from = 2 /\ verifier.from = 1
        /\ input[1].data # input[2].data)
    => result = "false"

\* C3 (SpecPair): two provers built from the same records, with any positive
\* num_threads each, report the same root hash.
C3_Determinism ==
    (Built(1) /\ Built(2) /\ input[1].data = input[2].data)
    => get_root_hash(prover[1]) = get_root_hash(prover[2])

C3_Witness ==
    /\ Built(1) /\ Built(2)
    /\ input[1].data = input[2].data
    /\ input[1].num_threads # input[2].num_threads
    /\ Len(input[1].data) = 5

\* C4 (SpecVerify): verify_proof returns a boolean on every well-typed proof;
\* it never panics, whatever the length of the authentication path.
C4_NeverPanics == result # "panic"

\* C5 (SpecVerify): verify_proof returns false on every proof whose leaf_index
\* cannot be addressed by its path, leaf_index >= 2^Len(authentication_path).
C5_MalformedRejected ==
    (result # "none" /\ shr(proof.leaf_index, Len(proof.authentication_path)) > 0)
    => result = "false"

\* C6 (Spec): the authentication path of a returned proof has ceil(log2(n))
\* elements, n the record count: the least L with 2^L >= n.
C6_PathLength ==
    proof.tag = "Ok" =>
        LET L == Len(proof.authentication_path)
            n == Len(input[proof.call.from].data)
        IN  /\ Pow2(L) >= n
            /\ L > 0 => Pow2(L - 1) < n
            /\ n = 1 => L = 0
            /\ n = 4 => L = 2
            /\ n = 5 => L = 3

C6_Witness ==
    /\ proof.tag = "Ok"
    /\ Len(input[1].data) = 5
    /\ Len(proof.authentication_path) = 3

C8_CeilingPerTests ==
    (size_call.tag = "Call" /\ size_call.num_threads = 1) =>
        /\ size_call.len = MAX_DATA_SIZE => size_call.result # "Ok"
        /\ size_call.len = MAX_DATA_SIZE - 1 => size_call.result = "Ok"

\* C9 (Spec): get_proof returns the out-of-bounds error exactly when
\* leaf_index >= n and a proof (no panic) for every leaf_index < n, and the
\* call leaves the prover as it was.
C9_Outcome ==
    proof.tag # "None" =>
        /\ proof.tag \in {"Ok", "Err"}
        /\ proof.tag = "Err" <=> proof.call.leaf_index >= prover[proof.call.from].data_length
        /\ proof.tag = "Err" => proof.err = "Leaf index is out of bounds."

C9_GetProofBounds ==
    /\ []C9_Outcome
    /\ [][proof' # proof => prover' = prover]_vars

C9_Witness ==
    /\ proof.tag = "Err"
    /\ proof.call.leaf_index = prover[1].data_length
    /\ prover[1].data_length = 5

\* C10 (SpecPair): two provers built from record sequences of one length that
\* differ in exactly one record report different root hashes.
C10_Sensitivity ==
    (Built(1) /\ Built(2) /\ OneRecordChanged(input[1].data, input[2].data))
    => get_root_hash(prover[1]).hash # get_root_hash(prover[2]).hash

C10_Witness ==
    /\ Built(1) /\ Built(2)
    /\ OneRecordChanged(input[1].data, input[2].data)
    /\ Len(input[1].data) = 5
    /\ input[1].data[5] # input[2].data[5]

\* C11 (Spec): a proof returned by get_proof(leaf_index) carries that
\* leaf_index, and its leaf_hash is the digest of the record at leaf_index:
\* the descent ends on the leaf of the requested record.
C11_ReachesLeaf ==
    proof.tag = "Ok" =>
        /\ proof.leaf_index = proof.call.leaf_index
        /\ proof.leaf_hash =
              hash_data_sequences(
                  <<as_bytes(input[proof.call.from].data[proof.call.leaf_index + 1])>>)

C11_Witness ==
    /\ proof.tag = "Ok"
    /\ Len(input[1].data) = 5
    /\ proof.call.leaf_index = 4
    /\ input[1].data[5] # input[1].data[4]
    /\ proof.leaf_hash = hash_data_sequences(<<as_bytes(input[1].data[5])>>)

\* C12 (SpecPar): whatever the order in which the workers finish the chunks
\* of each level (each level finished before the next starts), the tree
\* returned is the tree of the sequential build in index order: every node,
\* its hash and its position.
C12_SchedulingIndependent ==
    build.pc = "done" => build.root = build_tree(build.data, build.num_threads)

C12_Witness ==
    /\ build.pc = "done"
    /\ build.reordered
    /\ Len(build.data) = 5
    /\ build.num_threads > 1

\* the node and every node below it: both children or none; with children,
\* the hash is the digest of the left and the right child's hash in that
\* order; without children, the hash is the digest of one of the records
RECURSIVE NodeWellFormed(_, _)
NodeWellFormed(node, data) ==
    /\ (node.left.tag = "None") <=> (node.right.tag = "None")
    /\ IF node.left.tag = "Some" /\ node.right.tag = "Some"
       THEN /\ node.hash = hash_data_sequences(<<hash_bytes(node.left.hash),
                                                 hash_bytes(node.right.hash)>>)
            /\ NodeWellFormed(node.left, data)
            /\ NodeWellFormed(node.right, data)
       ELSE \E i \in 1..Len(data) :
               node.hash = hash_data_sequences(<<as_bytes(data[i])>>)

\* C13 (Spec): in every built tree each node has both children or none, a
\* node with children has the digest of its children's hashes, and a childless
\* node has the digest of an input record, the padding nodes included.
C13_NodeInvariant ==
    Built(1) => NodeWellFormed(prover[1].root, input[1].data)

====
